---- MODULE Spec2Model ----
(***************************************************************************)
(* OpenPL scene facade (PL_SCENE.cpp): the mesh list, the voxel lattice,   *)
(* the voxelisation worker with its atomic status, the queries and         *)
(* Simulate.  One caller thread issues the public operations; every        *)
(* Voxelise that passes validation in status NotStarted starts a           *)
(* boost::thread running VoxeliseInternal.                                 *)
(*                                                                         *)
(* Numbers are integers: extents and cell sizes are whole metres,          *)
(* absorptivities are hundredths, pressures and velocities whole units of  *)
(* the pulse.  The lattice is its per-axis counts, the length of its cell  *)
(* vector and each cell's Beta and Absorptivity; the cells' positions are  *)
(* not part of the state, their pressures and velocities are while the     *)
(* time-stepped FDTD runs.                                                 *)
(*                                                                         *)
(* Five specifications share the state: Spec (voxelisation, queries and    *)
(* Simulate as one step), MeshSpec (the mesh list with                     *)
(* AddAndConvertGameMesh's validation and every RemoveMesh index),         *)
(* LocationSpec (the listener and source lists), FillSpec (voxelisations   *)
(* of mesh lists that exercise FillVoxels' classification) and KernelSpec  *)
(* (the time-step loop, started on a lattice a voxelisation has built).    *)
(***************************************************************************)
EXTENDS Integers, Sequences, FiniteSets, TLC

VARIABLES
    Meshes,             \* std::vector<PL_MESH> Meshes
    VoxelThreadStatus,  \* std::atomic<ThreadStatus> VoxelThreadStatus
    thread,             \* the two scoped_thread objects: the member VoxelThread
                        \* and Voxelise's stack object NewVoxelThread
    Voxels,             \* PL_VOXEL_GRID Voxels: Size (per-axis counts), Voxels (length of the
                        \* cell vector), Cells (Beta and Absorptivity of each cell)
    SimulationGrid,     \* rows of SimulationGrid
    pc,                 \* where the caller thread is
    call,               \* the caller's current or last operation and what it returned
    ListenerLocations,  \* std::vector<PLVector> ListenerLocations
    SourceLocations,    \* std::vector<PLVector> SourceLocations
    LocationHandle,     \* history: the index each Add...Location call wrote for the location it added
    adds,               \* history: how many AddAndConvertGameMesh calls returned PL_OK
    removes,            \* history: how many RemoveMesh calls were made
    MeshesBeforeAdd,    \* history: the mesh list as it was before the last such call
    AirPressure,        \* AirPressure of each cell of Voxels.Voxels, in Simulate, for the
                        \* pulse as it is and for the pulse multiplied by 2
    ParticleVelocity,   \* ParticleVelocityX, Y and Z of each cell, likewise
    CurrentTimeStep,    \* the counter of Simulate's time-step loop
    Columns             \* the columns of SimulationGrid written so far, likewise

\* The state of the voxelisation and of Simulate
voxelisation == <<VoxelThreadStatus, thread, Voxels, SimulationGrid>>

\* The listener and source lists
locations == <<ListenerLocations, SourceLocations, LocationHandle>>

\* The history of the mesh list
meshHistory == <<adds, removes, MeshesBeforeAdd>>

\* The state of the time-stepped FDTD
kernel == <<AirPressure, ParticleVelocity, CurrentTimeStep, Columns>>

vars == <<Meshes, VoxelThreadStatus, thread, Voxels, SimulationGrid, pc, call,
          ListenerLocations, SourceLocations, LocationHandle, adds, removes,
          MeshesBeforeAdd, AirPressure, ParticleVelocity, CurrentTimeStep, Columns>>

----------------------------------------------------------------------------
(* Bounds of the model *)

MaxMeshes == 2
MaxIndex == 1
MaxAdds == 3        \* successful AddAndConvertGameMesh calls counted in MeshSpec
MaxRemoves == 2     \* RemoveMesh calls counted in MeshSpec
MaxLocations == 2   \* length of the listener and of the source list

----------------------------------------------------------------------------
(* Values *)

ThreadStatus_NotStarted == "NotStarted"
ThreadStatus_Ongoing == "Ongoing"
ThreadStatus_Finished == "Finished"

PL_OK == "PL_OK"
PL_ERR == "PL_ERR"
PL_ERR_INVALID_PARAM == "PL_ERR_INVALID_PARAM"
Pending == "pending"        \* the operation has not returned yet
Thrown == "exception"       \* the operation left by an exception
Unwritten == <<"unwritten", 0>>             \* the out-parameter was not written
OutIndex(n) == <<"index", n>>               \* an int index written to OutIndex
Count(n) == <<"count", n>>                  \* an int written to OutVoxelCount
ZeroVector == <<"PLVector", 0>>             \* PLVector()
WorldPosition(i) == <<"WorldPosition", i>>  \* the centre stored in cell i
ZeroFloat == <<"float", 0>>                 \* 0.f
Absorptivity(i) == <<"Absorptivity", i>>    \* the absorptivity stored in cell i

MeshInputs == {"m1", "m2"}

\* The mesh the caller registers before it voxelises
VoxelisedMeshes == {"m1"}

\* A cell as std::vector<PLVoxel>(n) constructs it, before FillVoxels, with
\* Beta = beta: Absorptivity is zero (FillVoxels leaves it alone in an air
\* cell); Beta is 0 or 1, FillVoxels sets it in every cell.
PLVoxel(beta) == [Beta |-> beta, Absorptivity |-> 0]

\* The values Beta can have in a constructed cell
ConstructedBeta == {0, 1}

\* 0.75f, in hundredths
SolidAbsorptivity == 75

\* The meshes the caller registers before a voxelisation whose cells are
\* classified: m1 encloses cell 0 of every lattice; m2 cuts a corner off cell 0;
\* m3 reaches into cell 1 with three sample points; m4 lies outside the bounds
\* of the lattice, next to cell 0, whose cube reaches over the bounds; m5 is an
\* open mesh near cell 1, for which the point test flags points of a cube that
\* its box does not reach.
ClassifiedMeshes == {"m1", "m2", "m3", "m4", "m5"}

\* Voxels.Bounds.intersects(MeshBounds)
BoundsIntersectMesh(Mesh) == Mesh # "m4"

\* MeshBounds.intersects(VoxelBounds), VoxelBounds the cube of cell Index
\* (WorldPosition -/+ VoxelSize / 2)
MeshIntersectsVoxel(Mesh, Index) ==
    \/ Mesh \in {"m1", "m2", "m4"} /\ Index = 0
    \/ Mesh = "m3" /\ Index = 1

\* How many of the nine sample points of cell Index (GetPointsToCheckForVoxel:
\* the centre and the eight corners) points_inside_component reports inside
\* the mesh.
NumberOfPointsInside(Mesh, Index) ==
    IF Mesh \in {"m1", "m4"} /\ Index = 0 THEN 9
    ELSE IF Mesh = "m2" /\ Index = 0 THEN 2
    ELSE IF Mesh = "m3" /\ Index = 1 THEN 3
    ELSE IF Mesh = "m5" /\ Index = 1 THEN 9
    ELSE 0

\* A null pointer
NULL == "NULL"

\* The lengths the caller passes to AddAndConvertGameMesh
VerticesLengths == {3, 4}
IndicesLengths == {3, 4, 6}

\* The arguments of AddAndConvertGameMesh: the two arrays (or null pointers),
\* their lengths, and the mesh the conversion makes of them.
MeshArgs ==
    [Vertices : {NULL, "Vertices"}, VerticesLength : VerticesLengths,
     Indices : {NULL, "Indices"}, IndicesLength : IndicesLengths,
     Mesh : MeshInputs]

\* The indices the caller passes to RemoveMesh
MeshIndices == -1 .. MaxMeshes

\* The locations the caller passes to AddListenerLocation and AddSourceLocation
LocationInputs == {"A", "B", "C"}

\* No index has been written for the location.
NoHandle == -1

\* The indices the caller passes to RemoveListenerLocation and RemoveSourceLocation
LocationIndices == -1 .. MaxLocations

\* How many values size_t has (the width is scaled down to the integers of the
\* model checker; every list is far shorter).
SizeTypeRange == 1073741824

\* The conversion of an int to size_t that "Index >= list.size()" makes
ToSizeType(Index) == Index % SizeTypeRange

Req(size, h) == [Size |-> size, VoxelSize |-> h]

\* The (Size, VoxelSize) arguments the caller passes to Voxelise.
Requests ==
    { Req(<<2, 2, 2>>, 1),      \* 2 x 2 x 2 cells
      Req(<<2, 1, 1>>, 1),      \* 2 x 1 x 1 cells
      Req(<<2, 2, 2>>, 2),      \* 1 cell
      Req(<<1, 1, 1>>, 2),      \* cell larger than every side
      Req(<<2, 1, 1>>, 2),      \* cell larger than the Y and Z sides only
      Req(<<0, 1, 1>>, -1) }    \* passes the size check; the grid has no cells

NoRequest == Req(<<0, 0, 0>>, 0)

Indices == -1 .. MaxIndex

Handles == {"VoxelThread", "NewVoxelThread"}

\* A scoped_thread that holds no thread (not joinable).
NoThread == [pc |-> "NotAThread", req |-> NoRequest]

\* The thread's function has not returned yet.
Running(t) == t.pc \in {"spawned", "ongoing", "assigning", "filling", "finished"}

Joinable(t) == t # NoThread

\* What lets join() on a handle return: the thread it holds has ended.
JoinReturns(t) == ~Running(t)

----------------------------------------------------------------------------
(* Lattice construction arithmetic *)

\* static_cast<int>(a / b): truncation towards zero, b # 0
TruncDiv(a, b) ==
    LET q(x, y) == IF x >= 0 THEN x \div y ELSE -((-x) \div y)
    IN  IF b > 0 THEN q(a, b) ELSE q(-a, -b)

CeilDiv(a, b) == (a + b - 1) \div b

VoxelsInSide(req) == TruncDiv(req.Size[1], req.VoxelSize)

\* igl::voxel_grid(Bounds, s, 0, CenterPositions, Side): the longest side of the
\* box gets s cells, every other side ceil(s * its length / the longest length).
voxel_grid(Size, s) ==
    LET si == CHOOSE i \in 1..3 :
                /\ \A j \in 1..3 : Size[j] <= Size[i]
                /\ \A j \in 1..(i-1) : Size[j] < Size[i]
    IN  [i \in 1..3 |-> IF i = si THEN s ELSE CeilDiv(s * Size[i], Size[si])]

Side(req) == voxel_grid(req.Size, VoxelsInSide(req))

CellCount(side) == side[1] * side[2] * side[3]

----------------------------------------------------------------------------
(* Initial state: a scene just constructed *)

NoCall == [op |-> "none", arg |-> 0, ret |-> PL_OK, out |-> Unwritten,
           status0 |-> ThreadStatus_NotStarted]

\* The pulse as GaussianPulse makes it, and the pulse multiplied by 2
Amplitudes == {1, 2}

Axes == {"X", "Y", "Z"}

\* Simulate has not run: no pressures, no velocities, no column.
NoKernel ==
    /\ AirPressure = [a \in Amplitudes |-> <<>>]
    /\ ParticleVelocity = [a \in Amplitudes |-> [axis \in Axes |-> <<>>]]
    /\ CurrentTimeStep = 0
    /\ Columns = [a \in Amplitudes |-> <<>>]

Init ==
    /\ Meshes = <<>>
    /\ VoxelThreadStatus = ThreadStatus_NotStarted
    /\ thread = [h \in Handles |-> NoThread]
    /\ Voxels = [Size |-> <<0, 0, 0>>, Voxels |-> 0, Cells |-> <<>>]
    /\ SimulationGrid = 0
    /\ pc = "idle"
    /\ call = NoCall
    /\ ListenerLocations = <<>>
    /\ SourceLocations = <<>>
    /\ LocationHandle = [list \in {"Listener", "Source"} |-> [loc \in LocationInputs |-> NoHandle]]
    /\ adds = 0
    /\ removes = 0
    /\ MeshesBeforeAdd = <<>>
    /\ NoKernel

\* The record of an operation that returns at once.
Returned(op, arg, ret, out) ==
    [op |-> op, arg |-> arg, ret |-> ret, out |-> out, status0 |-> VoxelThreadStatus]

----------------------------------------------------------------------------
(* Mesh list *)

\* Mutant of AddMesh: the index written is the new size.
AddMesh_SizeAsIndex(Mesh) ==
    /\ pc = "idle"
    /\ Len(Meshes) < MaxMeshes
    /\ Meshes' = Append(Meshes, Mesh)
    /\ call' = Returned("AddMesh", Mesh, PL_OK, OutIndex(Len(Meshes) + 1))
    /\ UNCHANGED <<VoxelThreadStatus, thread, Voxels, SimulationGrid, pc>>

\* AddAndConvertGameMesh with valid arguments, through AddMesh: push_back, and
\* OutIndex is the new size minus one.
AddMesh(Mesh) ==
    /\ pc = "idle"
    /\ Len(Meshes) < MaxMeshes
    /\ Meshes' = Append(Meshes, Mesh)
    /\ call' = Returned("AddMesh", Mesh, PL_OK, OutIndex(Len(Meshes)))
    /\ UNCHANGED <<VoxelThreadStatus, thread, Voxels, SimulationGrid, pc>>

\* Mutant of AddAndConvertGameMeshValidate: the lengths are compared with 3
\* as the messages say ("less than 3").
AddAndConvertGameMeshValidate_LessThan3(a) ==
    IF a.Vertices = NULL \/ a.Indices = NULL THEN PL_ERR_INVALID_PARAM
    ELSE IF a.VerticesLength < 3 THEN PL_ERR_INVALID_PARAM
    ELSE IF a.IndicesLength < 3 THEN PL_ERR_INVALID_PARAM
    ELSE IF a.IndicesLength % 3 # 0 THEN PL_ERR_INVALID_PARAM
    ELSE PL_OK

\* The four early returns of AddAndConvertGameMesh, in the order of the code;
\* PL_OK when the call goes on to the conversion and AddMesh.
AddAndConvertGameMeshValidate(a) ==
    IF a.Vertices = NULL \/ a.Indices = NULL THEN PL_ERR_INVALID_PARAM
    ELSE IF a.VerticesLength <= 3 THEN PL_ERR_INVALID_PARAM
    ELSE IF a.IndicesLength <= 3 THEN PL_ERR_INVALID_PARAM
    ELSE IF a.IndicesLength % 3 # 0 THEN PL_ERR_INVALID_PARAM
    ELSE PL_OK

\* AddAndConvertGameMesh: an early return, or the conversion and AddMesh, whose
\* index and result it passes on.
AddAndConvertGameMesh(a) ==
    /\ pc = "idle"
    /\ IF AddAndConvertGameMeshValidate(a) # PL_OK
       THEN /\ call' = Returned("AddAndConvertGameMesh", a,
                                AddAndConvertGameMeshValidate(a), Unwritten)
            /\ UNCHANGED <<Meshes, VoxelThreadStatus, thread, Voxels, SimulationGrid, pc>>
            /\ UNCHANGED <<adds, MeshesBeforeAdd>>
       ELSE /\ adds < MaxAdds
            /\ AddMesh(a.Mesh)
            /\ adds' = adds + 1
            /\ MeshesBeforeAdd' = Meshes

\* Mutant of Erase: the first element is erased, whatever the index.
Erase_Begin(list, Index) == Tail(list)

\* vector::erase(begin() + Index), Index a position of the list (0-based): the
\* elements behind it move down by one.
Erase(list, Index) ==
    [k \in 1 .. Len(list) - 1 |-> IF k <= Index THEN list[k] ELSE list[k + 1]]

\* Meshes.erase(Meshes.begin() + Index); return PL_OK.  There is no check of
\* Index: with an Index that is no position of the list the erase is undefined
\* (the process dies, or the call returns with the list as it was or with an
\* element lost).
RemoveMesh(Index) ==
    /\ pc = "idle"
    /\ IF Index \in 0 .. Len(Meshes) - 1
       THEN /\ Meshes' = Erase(Meshes, Index)
            /\ call' = Returned("RemoveMesh", Index, PL_OK, Unwritten)
            /\ pc' = pc
       ELSE \/ /\ pc' = "crashed"
               /\ call' = Returned("RemoveMesh", Index, Pending, Unwritten)
               /\ UNCHANGED Meshes
            \/ /\ Meshes' \in {Meshes} \cup {Erase(Meshes, k) : k \in 0 .. Len(Meshes) - 1}
               /\ call' = Returned("RemoveMesh", Index, PL_OK, Unwritten)
               /\ pc' = pc
    /\ UNCHANGED <<VoxelThreadStatus, thread, Voxels, SimulationGrid>>

----------------------------------------------------------------------------
(* Listener and source lists *)

\* push_back, and OutIndex is the new size minus one.
AddListenerLocation(Location) ==
    /\ pc = "idle"
    /\ Len(ListenerLocations) < MaxLocations
    /\ ListenerLocations' = Append(ListenerLocations, Location)
    /\ call' = Returned("AddListenerLocation", Location, PL_OK,
                        OutIndex(Len(ListenerLocations)))
    /\ UNCHANGED <<Meshes, voxelisation, pc, SourceLocations>>

\* Mutant of RemoveListenerLocation: the check is Index > size.
RemoveListenerLocation_OffByOne(Index) ==
    /\ pc = "idle"
    /\ IF ToSizeType(Index) > Len(ListenerLocations)
       THEN /\ call' = Returned("RemoveListenerLocation", Index, PL_ERR, Unwritten)
            /\ UNCHANGED ListenerLocations
       ELSE /\ ListenerLocations' = Erase(ListenerLocations, Index)
            /\ call' = Returned("RemoveListenerLocation", Index, PL_OK, Unwritten)
    /\ UNCHANGED <<Meshes, voxelisation, pc, SourceLocations>>

\* if (Index >= ListenerLocations.size()) return PL_ERR: the comparison is made
\* in size_t, so a negative Index is rejected too; else the erase.
RemoveListenerLocation(Index) ==
    /\ pc = "idle"
    /\ IF ToSizeType(Index) >= Len(ListenerLocations)
       THEN /\ call' = Returned("RemoveListenerLocation", Index, PL_ERR, Unwritten)
            /\ UNCHANGED ListenerLocations
       ELSE /\ ListenerLocations' = Erase(ListenerLocations, Index)
            /\ call' = Returned("RemoveListenerLocation", Index, PL_OK, Unwritten)
    /\ UNCHANGED <<Meshes, voxelisation, pc, SourceLocations>>

\* push_back, and OutIndex is the new size minus one.
AddSourceLocation(Location) ==
    /\ pc = "idle"
    /\ Len(SourceLocations) < MaxLocations
    /\ SourceLocations' = Append(SourceLocations, Location)
    /\ call' = Returned("AddSourceLocation", Location, PL_OK,
                        OutIndex(Len(SourceLocations)))
    /\ UNCHANGED <<Meshes, voxelisation, pc, ListenerLocations>>

\* if (Index >= SourceLocations.size()) return PL_ERR; else the erase.
RemoveSourceLocation(Index) ==
    /\ pc = "idle"
    /\ IF ToSizeType(Index) >= Len(SourceLocations)
       THEN /\ call' = Returned("RemoveSourceLocation", Index, PL_ERR, Unwritten)
            /\ UNCHANGED SourceLocations
       ELSE /\ SourceLocations' = Erase(SourceLocations, Index)
            /\ call' = Returned("RemoveSourceLocation", Index, PL_OK, Unwritten)
    /\ UNCHANGED <<Meshes, voxelisation, pc, ListenerLocations>>

----------------------------------------------------------------------------
(* Voxelise, on the caller thread *)

\* Mutant of SizeTooSmall: only the X side is compared.
SizeTooSmall_OnlyX(Size, VoxelSize) == Size[1] < VoxelSize

\* Size.X < VoxelSize || Size.Y < VoxelSize || Size.Z < VoxelSize
SizeTooSmall(Size, VoxelSize) ==
    \/ Size[1] < VoxelSize
    \/ Size[2] < VoxelSize
    \/ Size[3] < VoxelSize

\* Mutant of VoxeliseValidate: the size check comes before the mesh check.
VoxeliseValidate_SizeFirst(req) ==
    IF SizeTooSmall(req.Size, req.VoxelSize) THEN PL_ERR_INVALID_PARAM
    ELSE IF Len(Meshes) = 0 THEN PL_ERR
    ELSE PL_OK

\* The two early returns of Voxelise, in the order of the code; PL_OK when
\* the call goes on to the switch.
VoxeliseValidate(req) ==
    IF Len(Meshes) = 0 THEN PL_ERR
    ELSE IF SizeTooSmall(req.Size, req.VoxelSize) THEN PL_ERR_INVALID_PARAM
    ELSE PL_OK

\* case ThreadStatus_NotStarted: NewVoxelThread is constructed, which starts the
\* thread; the move assignment that follows is VoxeliseMove.
VoxeliseNotStarted(req) ==
    /\ thread' = [thread EXCEPT !["NewVoxelThread"] = [pc |-> "spawned", req |-> req]]
    /\ pc' = "Voxelise_move"
    /\ call' = Returned("Voxelise", req, Pending, Unwritten)
    /\ UNCHANGED <<Meshes, VoxelThreadStatus, Voxels, SimulationGrid>>

\* Mutant of VoxeliseOngoing: the request is taken up as in NotStarted.
VoxeliseOngoing_Respawns(req) == VoxeliseNotStarted(req)

\* case ThreadStatus_Ongoing: ReturnResult = PL_OK and nothing else.
VoxeliseOngoing(req) ==
    /\ call' = Returned("Voxelise", req, PL_OK, Unwritten)
    /\ UNCHANGED <<Meshes, VoxelThreadStatus, thread, Voxels, SimulationGrid, pc>>

\* case ThreadStatus_Finished: the join and the store that follow are VoxeliseJoin.
VoxeliseFinished(req) ==
    /\ pc' = "Voxelise_join"
    /\ call' = Returned("Voxelise", req, Pending, Unwritten)
    /\ UNCHANGED <<Meshes, VoxelThreadStatus, thread, Voxels, SimulationGrid>>

\* A rejected call returns the error and touches nothing.
VoxeliseReject(req) ==
    /\ call' = Returned("Voxelise", req, VoxeliseValidate(req), Unwritten)
    /\ UNCHANGED <<Meshes, VoxelThreadStatus, thread, Voxels, SimulationGrid, pc>>

Voxelise(req) ==
    /\ pc = "idle"
    /\ IF VoxeliseValidate(req) # PL_OK THEN VoxeliseReject(req)
       ELSE IF VoxelThreadStatus = ThreadStatus_NotStarted THEN VoxeliseNotStarted(req)
       ELSE IF VoxelThreadStatus = ThreadStatus_Ongoing THEN VoxeliseOngoing(req)
       ELSE VoxeliseFinished(req)

\* VoxelThread = std::move(NewVoxelThread): scoped_thread's move assignment
\* first joins the thread the target holds (join_if_joinable), then takes over
\* the new one.  The caller is blocked while the old thread runs.
VoxeliseMove ==
    /\ pc = "Voxelise_move"
    /\ JoinReturns(thread["VoxelThread"])
    /\ thread' = [VoxelThread |-> thread["NewVoxelThread"], NewVoxelThread |-> NoThread]
    /\ pc' = "idle"
    /\ call' = [call EXCEPT !.ret = PL_OK]
    /\ UNCHANGED <<Meshes, VoxelThreadStatus, Voxels, SimulationGrid>>

\* if (VoxelThread.joinable()) VoxelThread.join();
\* VoxelThreadStatus.store(ThreadStatus_NotStarted); ReturnResult = PL_OK
VoxeliseJoin ==
    /\ pc = "Voxelise_join"
    /\ JoinReturns(thread["VoxelThread"])
    /\ thread' = [thread EXCEPT !["VoxelThread"] = NoThread]
    /\ VoxelThreadStatus' = ThreadStatus_NotStarted
    /\ pc' = "idle"
    /\ call' = [call EXCEPT !.ret = PL_OK]
    /\ UNCHANGED <<Meshes, Voxels, SimulationGrid>>

----------------------------------------------------------------------------
(* VoxeliseInternal and FillVoxels, on the thread held by handle h *)

\* VoxelThreadStatus.store(ThreadStatus_Ongoing)
StoreOngoing(h) ==
    /\ pc # "crashed"
    /\ thread[h].pc = "spawned"
    /\ thread' = [thread EXCEPT ![h].pc = "ongoing"]
    /\ VoxelThreadStatus' = ThreadStatus_Ongoing
    /\ UNCHANGED <<Meshes, Voxels, SimulationGrid, pc, call>>

\* The grid is computed into locals.  A zero count returns PL_ERR at once;
\* otherwise Voxels = VoxelGrid starts, copying member by member: first the
\* metadata (Bounds, Size, VoxelSize).
BuildGrid(h) ==
    /\ pc # "crashed"
    /\ thread[h].pc = "ongoing"
    /\ LET side == Side(thread[h].req)
       IN  IF side[1] = 0 \/ side[2] = 0 \/ side[3] = 0
           THEN /\ thread' = [thread EXCEPT ![h].pc = "exited"]
                /\ UNCHANGED Voxels
           ELSE /\ thread' = [thread EXCEPT ![h].pc = "assigning"]
                /\ Voxels' = [Voxels EXCEPT !.Size = side]
    /\ UNCHANGED <<Meshes, VoxelThreadStatus, SimulationGrid, pc, call>>

\* Voxels = VoxelGrid, the rest: the cell vector of XSize*YSize*ZSize cells,
\* each as constructed (only WorldPosition was set).
AssignVoxels(h) ==
    /\ pc # "crashed"
    /\ thread[h].pc = "assigning"
    /\ thread' = [thread EXCEPT ![h].pc = "filling"]
    /\ \E beta \in ConstructedBeta :
          Voxels' = [Voxels EXCEPT
                       !.Voxels = CellCount(Side(thread[h].req)),
                       !.Cells = [k \in 1 .. CellCount(Side(thread[h].req)) |-> PLVoxel(beta)]]
    /\ UNCHANGED <<Meshes, VoxelThreadStatus, SimulationGrid, pc, call>>

\* Mutant of FillMesh: a cell is marked with more than three points inside.
FillMesh_MoreThan3(Cells, Mesh) ==
    IF ~BoundsIntersectMesh(Mesh) THEN Cells
    ELSE [k \in 1 .. Len(Cells) |->
            IF MeshIntersectsVoxel(Mesh, k - 1) /\ NumberOfPointsInside(Mesh, k - 1) > 3
            THEN [Cells[k] EXCEPT !.Absorptivity = SolidAbsorptivity, !.Beta = 0]
            ELSE Cells[k]]

\* The body of FillVoxels' loop for one mesh: a mesh whose box misses the bounds
\* of the lattice is skipped; of the cells whose cube its box intersects
\* (MeshCells), those with more than two sample points inside get
\* Absorptivity = 0.75f and Beta = 0; every other cell stays as it is.
FillMesh(Cells, Mesh) ==
    IF ~BoundsIntersectMesh(Mesh) THEN Cells
    ELSE [k \in 1 .. Len(Cells) |->
            IF MeshIntersectsVoxel(Mesh, k - 1) /\ NumberOfPointsInside(Mesh, k - 1) > 2
            THEN [Cells[k] EXCEPT !.Absorptivity = SolidAbsorptivity, !.Beta = 0]
            ELSE Cells[k]]

\* for (auto& Mesh : Meshes): the first n meshes of the list, in order
RECURSIVE FillMeshes(_, _)
FillMeshes(Cells, n) ==
    IF n = 0 THEN Cells ELSE FillMesh(FillMeshes(Cells, n - 1), Meshes[n])

\* FillVoxels: Beta = 1 in every cell of the member Voxels, then the loop over
\* the meshes, then VoxelThreadStatus.store(ThreadStatus_Finished)
FillVoxels(h) ==
    /\ pc # "crashed"
    /\ thread[h].pc = "filling"
    /\ thread' = [thread EXCEPT ![h].pc = "finished"]
    /\ Voxels' = [Voxels EXCEPT !.Cells =
                    FillMeshes([k \in 1 .. Len(Voxels.Cells) |->
                                   [Voxels.Cells[k] EXCEPT !.Beta = 1]], Len(Meshes))]
    /\ VoxelThreadStatus' = ThreadStatus_Finished
    /\ UNCHANGED <<Meshes, SimulationGrid, pc, call>>

\* return FillVoxels(): the thread function returns and the thread ends.
ThreadExit(h) ==
    /\ pc # "crashed"
    /\ thread[h].pc = "finished"
    /\ thread' = [thread EXCEPT ![h].pc = "exited"]
    /\ UNCHANGED <<Meshes, VoxelThreadStatus, Voxels, SimulationGrid, pc, call>>

----------------------------------------------------------------------------
(* Queries, on the caller thread *)

\* The status check comes first, then the length of the cell vector.
GetVoxelsCountResult ==
    IF VoxelThreadStatus = ThreadStatus_Ongoing
    THEN [ret |-> PL_OK, out |-> Count(0)]
    ELSE [ret |-> PL_OK, out |-> Count(Voxels.Voxels)]

GetVoxelsCount ==
    /\ pc = "idle"
    /\ call' = Returned("GetVoxelsCount", 0, GetVoxelsCountResult.ret, GetVoxelsCountResult.out)
    /\ UNCHANGED <<Meshes, VoxelThreadStatus, thread, Voxels, SimulationGrid, pc>>

\* The status check comes first, then Index < 0, then Index >= size.
GetVoxelLocationResult(Index) ==
    IF VoxelThreadStatus = ThreadStatus_Ongoing
    THEN [ret |-> PL_OK, out |-> ZeroVector]
    ELSE IF Index < 0 THEN [ret |-> PL_ERR_INVALID_PARAM, out |-> Unwritten]
    ELSE IF Index >= Voxels.Voxels THEN [ret |-> PL_ERR, out |-> Unwritten]
    ELSE [ret |-> PL_OK, out |-> WorldPosition(Index)]

GetVoxelLocation(Index) ==
    /\ pc = "idle"
    /\ call' = Returned("GetVoxelLocation", Index,
                        GetVoxelLocationResult(Index).ret, GetVoxelLocationResult(Index).out)
    /\ UNCHANGED <<Meshes, VoxelThreadStatus, thread, Voxels, SimulationGrid, pc>>

\* Index < 0 comes first, then Index >= size, and only then the status check.
GetVoxelAbsorpivityResult(Index) ==
    IF Index < 0 THEN [ret |-> PL_ERR_INVALID_PARAM, out |-> Unwritten]
    ELSE IF Index >= Voxels.Voxels THEN [ret |-> PL_ERR, out |-> Unwritten]
    ELSE IF VoxelThreadStatus = ThreadStatus_Ongoing THEN [ret |-> PL_OK, out |-> ZeroFloat]
    ELSE [ret |-> PL_OK, out |-> Absorptivity(Index)]

GetVoxelAbsorpivity(Index) ==
    /\ pc = "idle"
    /\ call' = Returned("GetVoxelAbsorpivity", Index,
                        GetVoxelAbsorpivityResult(Index).ret, GetVoxelAbsorpivityResult(Index).out)
    /\ UNCHANGED <<Meshes, VoxelThreadStatus, thread, Voxels, SimulationGrid, pc>>

----------------------------------------------------------------------------
(* Simulate, on the caller thread *)

\* Entry of Simulate, up to VoxelThread.join()
SimulateCall ==
    /\ pc = "idle"
    /\ pc' = "Simulate_join"
    /\ call' = Returned("Simulate", 0, Pending, Unwritten)
    /\ UNCHANGED <<Meshes, VoxelThreadStatus, thread, Voxels, SimulationGrid>>

\* Mutant of SimulateJoin: the kernel starts without the join.
SimulateJoin_NoJoin ==
    /\ pc = "Simulate_join"
    /\ Joinable(thread["VoxelThread"])
    /\ pc' = "Simulate_kernel"
    /\ UNCHANGED <<Meshes, VoxelThreadStatus, thread, Voxels, SimulationGrid, call>>

\* VoxelThread.join() on a handle that holds a thread: blocks until it ended.
SimulateJoin ==
    /\ pc = "Simulate_join"
    /\ Joinable(thread["VoxelThread"])
    /\ JoinReturns(thread["VoxelThread"])
    /\ thread' = [thread EXCEPT !["VoxelThread"] = NoThread]
    /\ pc' = "Simulate_kernel"
    /\ UNCHANGED <<Meshes, VoxelThreadStatus, Voxels, SimulationGrid, call>>

\* VoxelThread.join() on a handle that holds no thread: boost::thread::join either
\* throws thread_resource_error or returns, as the build of the library decides.
SimulateJoinNotJoinable ==
    /\ pc = "Simulate_join"
    /\ ~Joinable(thread["VoxelThread"])
    /\ \/ /\ pc' = "idle"
          /\ call' = [call EXCEPT !.ret = Thrown]
       \/ /\ pc' = "Simulate_kernel"
          /\ UNCHANGED call
    /\ UNCHANGED <<Meshes, VoxelThreadStatus, thread, Voxels, SimulationGrid>>

\* if (SimulationGrid.size() < 2) SimulationGrid.resize(Voxels.Voxels.size())
SimulationGridAfter ==
    IF SimulationGrid < 2 THEN Voxels.Voxels ELSE SimulationGrid

\* The kernel indexes cell 0 of the lattice and rows 0 .. size-1 of the grid.
KernelInBounds == Voxels.Voxels >= 1 /\ Voxels.Voxels <= SimulationGridAfter

\* The grid set-up, the reset, the time-step loop and the return.  An index
\* out of bounds is undefined: the call returns or the process dies.
SimulateKernel ==
    /\ pc = "Simulate_kernel"
    /\ SimulationGrid' = SimulationGridAfter
    /\ \/ /\ pc' = "idle"
          /\ call' = [call EXCEPT !.ret = PL_OK]
       \/ /\ ~KernelInBounds
          /\ pc' = "crashed"
          /\ UNCHANGED call
    /\ UNCHANGED <<Meshes, VoxelThreadStatus, thread, Voxels>>

----------------------------------------------------------------------------
(* The system *)

\* The caller's operations on the voxelisation; the mesh indices it passes to
\* RemoveMesh are positions of the list.
Caller ==
    \/ \E Mesh \in VoxelisedMeshes : AddMesh(Mesh) /\ UNCHANGED <<locations, meshHistory, kernel>>
    \/ \E Index \in 0 .. Len(Meshes) - 1 : RemoveMesh(Index) /\ UNCHANGED <<locations, meshHistory, kernel>>
    \/ \E req \in Requests : Voxelise(req) /\ UNCHANGED <<locations, meshHistory, kernel>>
    \/ VoxeliseMove /\ UNCHANGED <<locations, meshHistory, kernel>>
    \/ VoxeliseJoin /\ UNCHANGED <<locations, meshHistory, kernel>>
    \/ GetVoxelsCount /\ UNCHANGED <<locations, meshHistory, kernel>>
    \/ \E Index \in Indices : GetVoxelLocation(Index) /\ UNCHANGED <<locations, meshHistory, kernel>>
    \/ \E Index \in Indices : GetVoxelAbsorpivity(Index) /\ UNCHANGED <<locations, meshHistory, kernel>>
    \/ SimulateCall /\ UNCHANGED <<locations, meshHistory, kernel>>
    \/ SimulateJoin /\ UNCHANGED <<locations, meshHistory, kernel>>
    \/ SimulateJoinNotJoinable /\ UNCHANGED <<locations, meshHistory, kernel>>
    \/ SimulateKernel /\ UNCHANGED <<locations, meshHistory, kernel>>

\* VoxeliseInternal, then FillVoxels, on either thread
Worker ==
    \/ \E h \in Handles : StoreOngoing(h) /\ UNCHANGED <<locations, meshHistory, kernel>>
    \/ \E h \in Handles : BuildGrid(h) /\ UNCHANGED <<locations, meshHistory, kernel>>
    \/ \E h \in Handles : AssignVoxels(h) /\ UNCHANGED <<locations, meshHistory, kernel>>
    \/ \E h \in Handles : FillVoxels(h) /\ UNCHANGED <<locations, meshHistory, kernel>>
    \/ \E h \in Handles : ThreadExit(h) /\ UNCHANGED <<locations, meshHistory, kernel>>

Next == Caller \/ Worker

Spec == Init /\ [][Next]_vars

----------------------------------------------------------------------------
(* The mesh list alone: every argument of AddAndConvertGameMesh, every index
   of RemoveMesh *)

MeshNext ==
    \/ \E a \in MeshArgs :
          AddAndConvertGameMesh(a) /\ UNCHANGED <<locations, removes, kernel>>
    \/ \E Index \in MeshIndices :
          /\ removes < MaxRemoves
          /\ RemoveMesh(Index)
          /\ removes' = removes + 1
          /\ UNCHANGED <<locations, adds, MeshesBeforeAdd, kernel>>

MeshSpec == Init /\ [][MeshNext]_vars

----------------------------------------------------------------------------
(* The listener and source lists alone.  The caller adds a location that is
   not in the list, and LocationHandle records the index the call wrote, for
   as long as the location is in the list. *)

InList(list, Location) == \E k \in 1 .. Len(list) : list[k] = Location

\* The handles of the locations that are in the list
HandlesOf(handles, list) ==
    [Location \in LocationInputs |->
        IF InList(list, Location) THEN handles[Location] ELSE NoHandle]

LocationNext ==
    \/ \E Location \in LocationInputs :
          /\ ~InList(ListenerLocations, Location)
          /\ AddListenerLocation(Location)
          /\ LocationHandle' = [LocationHandle EXCEPT !["Listener"][Location] = call'.out[2]]
          /\ UNCHANGED <<meshHistory, kernel>>
    \/ \E Index \in LocationIndices :
          /\ RemoveListenerLocation(Index)
          /\ LocationHandle' = [LocationHandle EXCEPT
                                  !["Listener"] = HandlesOf(@, ListenerLocations')]
          /\ UNCHANGED <<meshHistory, kernel>>
    \/ \E Location \in LocationInputs :
          /\ ~InList(SourceLocations, Location)
          /\ AddSourceLocation(Location)
          /\ LocationHandle' = [LocationHandle EXCEPT !["Source"][Location] = call'.out[2]]
          /\ UNCHANGED <<meshHistory, kernel>>
    \/ \E Index \in LocationIndices :
          /\ RemoveSourceLocation(Index)
          /\ LocationHandle' = [LocationHandle EXCEPT
                                  !["Source"] = HandlesOf(@, SourceLocations')]
          /\ UNCHANGED <<meshHistory, kernel>>

LocationSpec == Init /\ [][LocationNext]_vars

----------------------------------------------------------------------------
(* Properties *)

\* The thread has been started and has not yet stored Finished or returned.
InFlight(t) == t.pc \in {"spawned", "ongoing", "assigning", "filling"}

\* Between "ongoing" and the store of Finished the thread is inside the body
\* of VoxeliseInternal or FillVoxels.
Executing(t) == t.pc \in {"ongoing", "assigning", "filling"}

VoxeliseReturned == pc = "idle" /\ call.op = "Voxelise"

\* C1 (async poll): while a worker spawned by a Voxelise that returned PL_OK has
\* not completed, every GetVoxelsCount returns PL_OK with count 0.
C1_AsyncPollZeroUntilComplete ==
    [][ (GetVoxelsCount /\ InFlight(thread["VoxelThread"]))
        => (call'.ret = PL_OK /\ call'.out = Count(0)) ]_vars

\* C2: once a Voxelise accepted in status NotStarted has returned, the status
\* is no longer NotStarted.
C2_StatusLeavesNotStartedInCall ==
    (VoxeliseReturned /\ call.ret = PL_OK /\ call.status0 = ThreadStatus_NotStarted)
        => VoxelThreadStatus # ThreadStatus_NotStarted

\* C3: a valid Voxelise in status Ongoing returns PL_OK at once and changes
\* neither the threads (none is started, the running one keeps its request)
\* nor the status nor the lattice.
C3_OngoingVoxeliseIgnored ==
    [][ \A req \in Requests :
          (Voxelise(req) /\ VoxeliseValidate(req) = PL_OK
                         /\ VoxelThreadStatus = ThreadStatus_Ongoing)
          => /\ pc' = "idle"
             /\ call'.ret = PL_OK
             /\ UNCHANGED <<VoxelThreadStatus, thread, Voxels>> ]_vars

\* C3 witness: such a call has returned while the earlier request is being built.
C3_Witness ==
    /\ VoxeliseReturned
    /\ call.status0 = ThreadStatus_Ongoing
    /\ call.ret = PL_OK
    /\ Executing(thread["VoxelThread"])
    /\ thread["VoxelThread"].req # call.arg

\* C4: a valid Voxelise in status Finished has, when it returns, started a
\* worker for its own request.
C4_FinishedVoxeliseStartsWorker ==
    (VoxeliseReturned /\ call.ret = PL_OK /\ call.status0 = ThreadStatus_Finished)
        => (Joinable(thread["VoxelThread"]) /\ thread["VoxelThread"].req = call.arg)

\* The status is Ongoing, no worker is on its way to FillVoxels' store of
\* Finished, and the caller is not inside the Finished branch of Voxelise
\* (the only other store to the status).
OngoingWithNoWorker ==
    /\ VoxelThreadStatus = ThreadStatus_Ongoing
    /\ \A h \in Handles : ~InFlight(thread[h])
    /\ pc # "Voxelise_join"

\* C5: the status never stays Ongoing forever: whenever it is Ongoing, a
\* worker that will store Finished is in flight (or the caller is about to
\* reset the status).
C5_OngoingHasWorkerInFlight == ~OngoingWithNoWorker

\* Why C5_OngoingHasWorkerInFlight states the liveness claim: no step leaves
\* OngoingWithNoWorker, so from such a state the status is Ongoing forever.
OngoingStuck == [][OngoingWithNoWorker => OngoingWithNoWorker']_vars

\* C6: while Simulate is past its join (grid set-up, reset, time-step loop),
\* no voxelisation thread is running.
C6_KernelAfterWorkers ==
    pc = "Simulate_kernel" => \A h \in Handles : ~Running(thread[h])

\* C6 witness: the kernel runs on a lattice that a worker built.
C6_Witness ==
    /\ pc = "Simulate_kernel"
    /\ VoxelThreadStatus = ThreadStatus_Finished
    /\ Voxels.Voxels > 0

\* C7: a query made while the status is Ongoing returns PL_OK with a zero
\* output, whatever the index.
C7_QueriesZeroWhileOngoing ==
    (call.op \in {"GetVoxelsCount", "GetVoxelLocation", "GetVoxelAbsorpivity"}
        /\ call.status0 = ThreadStatus_Ongoing)
    => /\ call.ret = PL_OK
       /\ call.out \in {Count(0), ZeroVector, ZeroFloat}

\* C8: at most one voxelisation thread is inside VoxeliseInternal at any time.
C8_SingleWorker ==
    ~(Executing(thread["VoxelThread"]) /\ Executing(thread["NewVoxelThread"]))

\* The cell is larger than some side of the domain (the precondition of C9).
CellLargerThanASide(req) == \E a \in 1..3 : req.Size[a] < req.VoxelSize

\* C9 as claimed: whenever the cell is larger than a side, Voxelise returns
\* PL_ERR_INVALID_PARAM.
C9_TooLargeCellAlwaysInvalidParam ==
    (VoxeliseReturned /\ CellLargerThanASide(call.arg))
        => call.ret = PL_ERR_INVALID_PARAM

\* C9 amended: a Voxelise whose cell is larger than a side is rejected at once
\* and changes neither the threads nor the status nor the lattice; the code
\* is PL_ERR_INVALID_PARAM when the mesh list is non-empty, PL_ERR when empty.
C9_TooLargeCellRejected ==
    [][ \A req \in Requests :
          (Voxelise(req) /\ CellLargerThanASide(req))
          => /\ pc' = "idle"
             /\ call'.ret = IF Meshes = <<>> THEN PL_ERR ELSE PL_ERR_INVALID_PARAM
             /\ UNCHANGED <<VoxelThreadStatus, thread, Voxels>> ]_vars

\* C9 witness: Voxelise(size (1,1,1), cell 2) on a scene with a mesh has
\* returned PL_ERR_INVALID_PARAM.
C9_Witness ==
    /\ VoxeliseReturned
    /\ call.arg = Req(<<1, 1, 1>>, 2)
    /\ Meshes # <<>>
    /\ call.ret = PL_ERR_INVALID_PARAM

\* C10: a Voxelise on an empty mesh list returns PL_ERR at once, in every
\* status and for every request, and changes neither the threads nor the
\* status nor the lattice.
C10_NoMeshRejected ==
    [][ \A req \in Requests :
          (Voxelise(req) /\ Meshes = <<>>)
          => /\ pc' = "idle"
             /\ call'.ret = PL_ERR
             /\ UNCHANGED <<VoxelThreadStatus, thread, Voxels>> ]_vars

\* C10 witness: every mesh was removed again after a voxelisation finished,
\* and a Voxelise then returned PL_ERR.
C10_Witness ==
    /\ VoxeliseReturned
    /\ Meshes = <<>>
    /\ call.status0 = ThreadStatus_Finished
    /\ call.ret = PL_ERR
    /\ Voxels.Voxels > 0

----------------------------------------------------------------------------
(* Properties of the mesh list, under MeshSpec *)

\* Index is a position of the mesh list.
MeshPosition(Index) == 0 <= Index /\ Index < Len(Meshes)

\* C12: RemoveMesh with an index that is no position of the mesh list (also on
\* an empty list) returns PL_ERR and leaves the list unchanged.
C12_RemoveMeshOutOfRangeRejected ==
    [][ \A Index \in MeshIndices :
          (RemoveMesh(Index) /\ ~MeshPosition(Index))
          => /\ pc' = "idle"
             /\ call'.ret = PL_ERR
             /\ Meshes' = Meshes ]_vars

\* The last operation was an AddAndConvertGameMesh that returned PL_OK.
MeshAdded == pc = "idle" /\ call.op = "AddMesh" /\ call.ret = PL_OK

\* C13 as claimed: in any sequence of operations, the k-th (0-based)
\* AddAndConvertGameMesh that returns PL_OK writes k to OutIndex.
C13_KthAddWritesK == MeshAdded => call.out = OutIndex(adds - 1)

\* C13 amended: a successful AddAndConvertGameMesh writes the position of the
\* new mesh, the last of the list; that is k for the k-th successful call as
\* long as RemoveMesh was never called.
C13_AddWritesLastPosition ==
    MeshAdded => /\ call.out = OutIndex(Len(Meshes) - 1)
                 /\ Meshes[Len(Meshes)] = call.arg
                 /\ removes = 0 => call.out = OutIndex(adds - 1)

\* C13 witness: the second successful call, with no removal before it, wrote 1.
C13_Witness ==
    /\ MeshAdded
    /\ adds = 2
    /\ removes = 0
    /\ call.out = OutIndex(1)

\* C15: RemoveMesh with a position i of the list removes exactly mesh i and
\* keeps the others in order (those behind it move down by one); hence, right
\* after an AddAndConvertGameMesh that wrote i, RemoveMesh(i) leaves the list
\* as it was before that call.
C15_AddThenRemoveRoundTrip ==
    [][ \A Index \in MeshIndices :
          (RemoveMesh(Index) /\ MeshPosition(Index))
          => /\ pc' = "idle"
             /\ call'.ret = PL_OK
             /\ Len(Meshes') = Len(Meshes) - 1
             /\ \A k \in 1 .. Len(Meshes') :
                   Meshes'[k] = IF k <= Index THEN Meshes[k] ELSE Meshes[k + 1]
             /\ (MeshAdded /\ call.out = OutIndex(Index)) => Meshes' = MeshesBeforeAdd ]_vars

\* C15 witness: two meshes were added, the second call wrote 1, and the one
\* RemoveMesh made so far, RemoveMesh(1), has returned.
C15_Witness ==
    /\ pc = "idle"
    /\ call.op = "RemoveMesh"
    /\ call.arg = 1
    /\ call.ret = PL_OK
    /\ adds = 2
    /\ removes = 1
    /\ Meshes = MeshesBeforeAdd
    /\ Len(Meshes) = 1

\* The arguments C16 lists as invalid.
InvalidMeshArgs(a) ==
    \/ a.Vertices = NULL
    \/ a.Indices = NULL
    \/ a.VerticesLength < 4
    \/ a.IndicesLength < 4
    \/ a.IndicesLength % 3 # 0

----------------------------------------------------------------------------
(* Properties of the listener and source lists, under LocationSpec *)

\* What removing a list's element at position Index (0-based) leaves: one
\* element fewer, the others in their order.
RemovedAt(before, after, Index) ==
    /\ Len(after) = Len(before) - 1
    /\ \A k \in 1 .. Len(after) :
          after[k] = IF k <= Index THEN before[k] ELSE before[k + 1]

\* What C11 asks of a removal that was called with Index on the list before
\* and left the list after.
RemovalContract(before, after, Index) ==
    /\ pc' = "idle"
    /\ IF Index < 0 \/ Index >= Len(before)
       THEN call'.ret = PL_ERR /\ after = before
       ELSE call'.ret = PL_OK /\ RemovedAt(before, after, Index)

\* C11: RemoveListenerLocation and RemoveSourceLocation with an index that is
\* negative or not below the length return PL_ERR and leave the list
\* unchanged; with a position of the list they return PL_OK and remove exactly
\* that element, keeping the order of the others.
C11_LocationRemoval ==
    [][ \A Index \in LocationIndices :
          /\ RemoveListenerLocation(Index)
                => RemovalContract(ListenerLocations, ListenerLocations', Index)
          /\ RemoveSourceLocation(Index)
                => RemovalContract(SourceLocations, SourceLocations', Index) ]_vars

\* C11 witness: after one AddListenerLocation, which wrote 0,
\* RemoveListenerLocation(1) has returned PL_ERR and the location is still there.
C11_Witness ==
    /\ pc = "idle"
    /\ call.op = "RemoveListenerLocation"
    /\ call.arg = 1
    /\ call.ret = PL_ERR
    /\ Len(ListenerLocations) = 1
    /\ LocationHandle["Listener"][ListenerLocations[1]] = 0

\* The index written when Location was added still identifies it in the list.
HandleIdentifies(list, handle, Location) ==
    /\ handle >= 0
    /\ handle < Len(list)
    /\ list[handle + 1] = Location

\* C14: for as long as a location is in the listener (source) list, the index
\* its Add call wrote identifies it, whatever was added or removed since.
C14_HandlesStable ==
    \A Location \in LocationInputs :
      /\ InList(ListenerLocations, Location)
            => HandleIdentifies(ListenerLocations, LocationHandle["Listener"][Location], Location)
      /\ InList(SourceLocations, Location)
            => HandleIdentifies(SourceLocations, LocationHandle["Source"][Location], Location)

----------------------------------------------------------------------------
(* Properties of the lattice and of the simulation grid, under Spec *)

\* The two states C17 allows a cell: air and solid.
AirCell == [Beta |-> 1, Absorptivity |-> 0]
SolidCell == [Beta |-> 0, Absorptivity |-> 75]

\* C17: whenever the status is Finished, every cell of the lattice is air
\* (beta 1, absorptivity 0) or solid (beta 0, absorptivity 0.75).
C17_FinishedCellsAirOrSolid ==
    VoxelThreadStatus = ThreadStatus_Finished
        => \A k \in 1 .. Len(Voxels.Cells) : Voxels.Cells[k] \in {AirCell, SolidCell}

\* C18: a GetVoxelsCount made while the status is not Ongoing and the lattice
\* holds cells returns PL_OK with X*Y*Z of the lattice's per-axis counts, which
\* is the length of its cell vector.
C18_CountIsProductOfSides ==
    [][ (GetVoxelsCount /\ VoxelThreadStatus # ThreadStatus_Ongoing /\ Voxels.Voxels > 0)
        => /\ call'.ret = PL_OK
           /\ call'.out = Count(CellCount(Voxels.Size))
           /\ call'.out = Count(Len(Voxels.Cells)) ]_vars

\* The query index is negative or not below the number of cells.
QueryIndexOutOfRange(Index) == Index < 0 \/ Index >= Len(Voxels.Cells)

\* C19: GetVoxelLocation and GetVoxelAbsorpivity, called while the status is
\* not Ongoing with an index that is negative or not below the number of
\* cells, return PL_ERR_INVALID_PARAM and write no output.
C19_QueryIndexInvalidParam ==
    [][ \A Index \in Indices :
          ((GetVoxelLocation(Index) \/ GetVoxelAbsorpivity(Index))
              /\ VoxelThreadStatus # ThreadStatus_Ongoing
              /\ QueryIndexOutOfRange(Index))
          => /\ call'.ret = PL_ERR_INVALID_PARAM
             /\ call'.out = Unwritten ]_vars

\* C20: when a Simulate has returned, the simulation grid has as many rows as
\* the lattice it ran on has cells, X*Y*Z (the lattice being one whose cell
\* vector has that length), however the lattice was rebuilt between the
\* Simulate calls.
C20_GridRowsMatchLattice ==
    (pc = "idle" /\ call.op = "Simulate" /\ call.ret = PL_OK
        /\ Voxels.Voxels = CellCount(Voxels.Size))
        => SimulationGrid = CellCount(Voxels.Size)

----------------------------------------------------------------------------
(* List mutators and queries against the running worker *)

\* C22: no step taken while the status is Ongoing changes the mesh list: a
\* list mutator called during the voxelisation is rejected, so the list
\* FillVoxels iterates over stays as it is.
C22_MeshListFixedWhileOngoing ==
    [][ VoxelThreadStatus = ThreadStatus_Ongoing => Meshes' = Meshes ]_vars

\* C29: Simulate waits only for a worker that was started, and runs the kernel
\* only over a lattice with cells that a finished voxelisation has built.
C29_KernelOnBuiltLattice ==
    /\ pc = "Simulate_join" => Joinable(thread["VoxelThread"])
    /\ pc = "Simulate_kernel" =>
          /\ VoxelThreadStatus = ThreadStatus_Finished
          /\ Voxels.Voxels >= 1

\* GetVoxelsCount reads Voxels.Voxels.size() unless the status is Ongoing.
GetVoxelsCountReadsLattice == VoxelThreadStatus # ThreadStatus_Ongoing

\* GetVoxelLocation reads Voxels.Voxels.size() (and the cell) once the status
\* check and Index < 0 are passed.
GetVoxelLocationReadsLattice(Index) ==
    VoxelThreadStatus # ThreadStatus_Ongoing /\ Index >= 0

\* GetVoxelAbsorpivity reads Voxels.Voxels.size() once Index < 0 is passed,
\* before it looks at the status.
GetVoxelAbsorpivityReadsLattice(Index) == Index >= 0

\* A thread started by Voxelise has not yet stored Finished.
WorkerInFlight == \E h \in Handles : InFlight(thread[h])

\* C30: while a worker is between its start and its store of Finished, no
\* query reads the cell vector or its size.
C30_NoQueryReadsLatticeInFlight ==
    [][ WorkerInFlight =>
          /\ ~(GetVoxelsCount /\ GetVoxelsCountReadsLattice)
          /\ \A Index \in Indices :
                /\ ~(GetVoxelLocation(Index) /\ GetVoxelLocationReadsLattice(Index))
                /\ ~(GetVoxelAbsorpivity(Index) /\ GetVoxelAbsorpivityReadsLattice(Index)) ]_vars

----------------------------------------------------------------------------
(* Mesh ingestion: the index matrix *)

\* The int array the caller passes as Indices with each mesh input: m1 is two
\* triangles over vertices 0 .. 3; in m2 the last index is 4.
IndexArray(Mesh) ==
    IF Mesh = "m1" THEN <<0, 1, 2, 0, 2, 3>> ELSE <<0, 1, 2, 2, 3, 4>>

\* EigenIndices, a 3 x (IndicesLength / 3) matrix, here as the sequence of its
\* columns: column row holds Indices[i], Indices[i+1], Indices[i+2], i = 3 * row,
\* as they are in the array.
EigenIndices(a) ==
    [row \in 1 .. (a.IndicesLength \div 3) |->
        <<IndexArray(a.Mesh)[3 * (row - 1) + 1],
          IndexArray(a.Mesh)[3 * (row - 1) + 2],
          IndexArray(a.Mesh)[3 * (row - 1) + 3]>>]

\* The mesh-index invariant of a mesh with index matrix I and Nv vertex columns
MeshIndexInvariant(I, Nv) ==
    /\ Nv >= 3
    /\ Len(I) >= 1
    /\ \A row \in 1 .. Len(I) : \A j \in 1 .. 3 : 0 <= I[row][j] /\ I[row][j] < Nv

\* C21: every mesh AddAndConvertGameMesh stores has Nt >= 1 triangles and only
\* indices 0 <= I[r,j] < Nv, Nv the number of columns of its vertex matrix.
C21_StoredMeshIndicesInRange ==
    [][ \A a \in MeshArgs :
          (AddAndConvertGameMesh(a) /\ Meshes' # Meshes)
          => MeshIndexInvariant(EigenIndices(a), a.VerticesLength) ]_vars

----------------------------------------------------------------------------
(* The classification of the cells: the caller registers meshes, then
   voxelises; the mesh list is not touched while a thread is held *)

\* The (Size, VoxelSize) arguments of these voxelisations: two cells, one cell
ClassifiedRequests == { Req(<<2, 1, 1>>, 1), Req(<<2, 2, 2>>, 2) }

FillNext ==
    \/ \E Mesh \in ClassifiedMeshes :
          /\ \A h \in Handles : thread[h] = NoThread
          /\ AddMesh(Mesh)
          /\ UNCHANGED <<locations, meshHistory, kernel>>
    \/ \E req \in ClassifiedRequests : Voxelise(req) /\ UNCHANGED <<locations, meshHistory, kernel>>
    \/ VoxeliseMove /\ UNCHANGED <<locations, meshHistory, kernel>>
    \/ VoxeliseJoin /\ UNCHANGED <<locations, meshHistory, kernel>>
    \/ Worker

FillSpec == Init /\ [][FillNext]_vars

\* The rule of C23 for the cell at Index: some mesh of the list has a box that
\* intersects the bounds of the lattice and the cube of the cell, and at least
\* three of the cell's nine sample points are flagged inside it.
SolidByRule(Index) ==
    \E k \in 1 .. Len(Meshes) :
        /\ BoundsIntersectMesh(Meshes[k])
        /\ MeshIntersectsVoxel(Meshes[k], Index)
        /\ NumberOfPointsInside(Meshes[k], Index) >= 3

\* C23: FillVoxels leaves a cell solid if and only if the rule holds for it,
\* and every other cell air.
C23_FillVoxelsClassification ==
    [][ \A h \in Handles :
          FillVoxels(h) =>
             \A k \in 1 .. Len(Voxels'.Cells) :
                Voxels'.Cells[k] = IF SolidByRule(k - 1) THEN SolidCell ELSE AirCell ]_vars

\* FillVoxels has run over two cells with a mesh that has two points in cell 0
\* and a mesh that has three points in cell 1: cell 0 is air, cell 1 solid.
C23_Witness ==
    /\ VoxelThreadStatus = ThreadStatus_Finished
    /\ Meshes = <<"m2", "m3">>
    /\ Voxels.Cells = <<AirCell, SolidCell>>

----------------------------------------------------------------------------
(* The time-stepped FDTD on a lattice a voxelisation has built, as
   PL_SCENE::Simulate runs it and as SimulatorFDTD::Simulate(int) runs it.
   Pressures and velocities are integers in units of 1 / PulseUnit of the
   first pulse sample, which are fine enough for every product with
   UpdateCoefficents and with (1 - Absorptivity) / (1 + Absorptivity) to be
   taken exactly.  The loop runs side by side for the pulse as it is
   (amplitude 1) and for the pulse multiplied by 2. *)

\* The number of time steps
TimeSteps == 3

\* The longest side of the lattice, in cells
KernelSide == 2

\* The units of one pulse sample: a factor 3 * 3 * 7 for every time step that
\* follows the first pulse
PulseUnit == 63 ^ (TimeSteps - 1)

\* The samples GaussianPulse writes, in units of the first one: the rising
\* flank of exp(-(t - delay)^2 / sigma^2), t = i * dt
GaussianPulse == <<1, 3, 8, 16, 29>>

\* Pulse[CurrentTimeStep], multiplied by the amplitude a
Pulse(a, t) == a * GaussianPulse[t + 1] * PulseUnit

\* UpdateCoefficents * v, UpdateCoefficents = SpeedOfSound * SecondsPerSample /
\* MetersPerGridCell = 1 / 1.5
TimesUpdateCoefficents(v) == (2 * v) \div 3

RECURSIVE GCD(_, _)
GCD(m, n) == IF n = 0 THEN m ELSE GCD(n, m % n)

\* (1.f - Absorption) / (1.f + Absorption) * v, Absorption in hundredths, the
\* fraction in lowest terms
TimesY(Absorption, v) ==
    LET g == GCD(100 + Absorption, 100 - Absorption)
    IN  (((100 - Absorption) \div g) * v) \div ((100 + Absorption) \div g)

\* The index of the cell at (x, y, z)
ThreeDimToOneDim(x, y, z, XSize, YSize) == x + y * XSize + z * XSize * YSize

\* The loop variables x, y, z at which the loops reach the cell Index
Coordinate(Index, Size) ==
    [X |-> Index % Size[1],
     Y |-> (Index \div Size[1]) % Size[2],
     Z |-> Index \div (Size[1] * Size[2])]

\* XSize, YSize, ZSize
AxisSize(Size, axis) == IF axis = "X" THEN Size[1] ELSE IF axis = "Y" THEN Size[2] ELSE Size[3]

\* The place in the cell vector (counted from 1) of the cell at c
CellAt(c, Size) == ThreeDimToOneDim(c.X, c.Y, c.Z, Size[1], Size[2]) + 1

\* NextVoxelX.ParticleVelocityX (and Y, Z) for the cell at c: a cell at the end
\* of the axis takes PLVoxel(), whose velocity is zero.
NextVoxelVelocity(V, axis, c, Size) ==
    IF c[axis] + 1 >= AxisSize(Size, axis) THEN 0
    ELSE V[axis][CellAt([c EXCEPT ![axis] = @ + 1], Size)]

Divergance(V, i, Size) ==
    LET c == Coordinate(i - 1, Size)
    IN  (NextVoxelVelocity(V, "X", c, Size) - V["X"][i])
      + (NextVoxelVelocity(V, "Y", c, Size) - V["Y"][i])
      + NextVoxelVelocity(V, "Z", c, Size) - V["Z"][i]

\* Mutant of PressureGrid: the pressure is not multiplied by Beta.
PressureGrid_NoBeta(P, V, Cells, Size) ==
    [i \in 1 .. Len(P) |-> P[i] - TimesUpdateCoefficents(Divergance(V, i, Size))]

\* Pressure grid: CurrentVoxel.AirPressure =
\*     Beta * (CurrentVoxel.AirPressure - UpdateCoefficents * Divergance)
PressureGrid(P, V, Cells, Size) ==
    [i \in 1 .. Len(P) |->
        Cells[i].Beta * (P[i] - TimesUpdateCoefficents(Divergance(V, i, Size)))]

\* "Process X Velocity" and its likes for Y and Z: the velocity along axis of
\* every cell, the cells with index 0 along the axis left as they are.
ProcessVelocity(axis, P, V, Cells, Size) ==
    [i \in 1 .. Len(P) |->
        LET c == Coordinate(i - 1, Size)
        IN  IF c[axis] < 1 THEN V[axis][i]
            ELSE LET prev == CellAt([c EXCEPT ![axis] = @ - 1], Size)
                     BetaNext == Cells[prev].Beta
                     AbsorptionNext == Cells[prev].Absorptivity
                     BetaThis == Cells[i].Beta
                     AbsorptionThis == Cells[i].Absorptivity
                     Gradient == P[i] - P[prev]
                     AirCellUpdate == V[axis][i] - TimesUpdateCoefficents(Gradient)
                     Sum == P[prev] * BetaNext + P[i] * BetaThis
                     WallCellUpdate == BetaThis * TimesY(AbsorptionNext, Sum)
                                       + BetaNext * TimesY(AbsorptionThis, Sum)
                 IN  BetaThis * BetaNext * AirCellUpdate
                     + (BetaNext - BetaThis) * WallCellUpdate]

\* The two functions that run the loop
PL_SCENE_Simulate == "Simulate"
SimulatorFDTD_Simulate == "SimulatorFDTD::Simulate"

\* What SimulatorFDTD::Simulate returns
Void == "void"

\* The axes whose velocity loop is compiled: in PL_SCENE::Simulate Y and Z are
\* commented out, in SimulatorFDTD::Simulate Y is.
ProcessedAxes(op) == IF op = PL_SCENE_Simulate THEN {"X"} ELSE {"X", "Z"}

\* The place in the cell vector of the cell the pulse is added to:
\* Voxels.Voxels[0], (*Lattice)[SimulateVoxelIndex]
SourceCell == call.arg + 1

\* The accesses of "Absorption top/bottom", for i = 0 .. ZSize - 1: the cell
\* whose ParticleVelocityX is written, the cell whose AirPressure is read, and
\* the sign the pressure is taken with.
AbsorptionTopBottom(Size) ==
    UNION { { [write |-> i, read |-> i, sign |-> -1],
              [write |-> Size[1] * (Size[3] + 1) + i,
               read |-> Size[1] * (Size[3] + 1) + i - Size[2] - 1, sign |-> 1] } :
            i \in 0 .. Size[3] - 1 }

\* The accesses of "Absorption left/right", for i = 0 .. XSize - 1, to
\* ParticleVelocityZ
AbsorptionLeftRight(Size) ==
    UNION { { [write |-> i * (Size[3] + 1), read |-> i * (Size[3] + 1), sign |-> -1],
              [write |-> i * (Size[3] + 1) + Size[3],
               read |-> i * (Size[3] + 1) + Size[3] - 1, sign |-> 1] } :
            i \in 0 .. Size[1] - 1 }

\* Index is an index of the cell vector.
InLattice(Index) == 0 <= Index /\ Index < Voxels.Voxels

\* Every index the two absorption loops use is an index of the cell vector.
AbsorptionInBounds ==
    \A acc \in AbsorptionTopBottom(Voxels.Size) \cup AbsorptionLeftRight(Voxels.Size) :
        InLattice(acc.write) /\ InLattice(acc.read)

\* The velocities one absorption loop leaves: the cells it writes get the
\* pressure it reads, with its sign; a read outside the cell vector gives
\* whatever is there, a write outside of it does not reach a cell.
Absorbed(V, P, accesses, outside) ==
    [k \in 1 .. Len(V) |->
        IF \E acc \in accesses : acc.write = k - 1
        THEN LET acc == CHOOSE acc \in accesses : acc.write = k - 1
             IN  acc.sign * (IF InLattice(acc.read) THEN P[acc.read + 1] ELSE outside)
        ELSE V[k]]

\* The lattices Simulate runs on: every shape up to KernelSide cells a side,
\* all air or with one solid cell
KernelLattices ==
    { [Size |-> <<x, y, z>>, Voxels |-> x * y * z,
       Cells |-> [i \in 1 .. x * y * z |-> IF i = solid THEN SolidCell ELSE AirCell]] :
      x \in 1 .. KernelSide, y \in 1 .. KernelSide, z \in 1 .. KernelSide,
      solid \in 0 .. KernelSide * KernelSide * KernelSide }

\* Simulate has joined the worker of a finished voxelisation and stands before
\* the grid set-up.
KernelInit ==
    /\ Meshes = <<"m1">>
    /\ VoxelThreadStatus = ThreadStatus_Finished
    /\ thread = [h \in Handles |-> NoThread]
    /\ Voxels \in KernelLattices
    /\ SimulationGrid = 0
    /\ pc = "Simulate_kernel"
    /\ \/ call = [op |-> PL_SCENE_Simulate, arg |-> 0, ret |-> Pending, out |-> Unwritten,
                  status0 |-> ThreadStatus_Finished]
       \/ \E SimulateVoxelIndex \in {0, Voxels.Voxels - 1} :
             call = [op |-> SimulatorFDTD_Simulate, arg |-> SimulateVoxelIndex, ret |-> Pending,
                     out |-> Unwritten, status0 |-> ThreadStatus_Finished]
    /\ ListenerLocations = <<>>
    /\ SourceLocations = <<>>
    /\ LocationHandle = [list \in {"Listener", "Source"} |-> [loc \in LocationInputs |-> NoHandle]]
    /\ adds = 0
    /\ removes = 0
    /\ MeshesBeforeAdd = <<>>
    /\ NoKernel

\* Mutant of KernelReset: the pressures are reset to one unit.
KernelReset_Unit ==
    /\ pc = "Simulate_kernel"
    /\ SimulationGrid' = IF call.op = PL_SCENE_Simulate THEN SimulationGridAfter
                         ELSE SimulationGrid
    /\ AirPressure' = [a \in Amplitudes |-> [i \in 1 .. Voxels.Voxels |-> PulseUnit]]
    /\ ParticleVelocity' = [a \in Amplitudes |-> [axis \in Axes |-> [i \in 1 .. Voxels.Voxels |-> 0]]]
    /\ CurrentTimeStep' = 0
    /\ Columns' = [a \in Amplitudes |-> <<>>]
    /\ pc' = "Simulate_pressure"
    /\ UNCHANGED <<Meshes, VoxelThreadStatus, thread, Voxels, call>>

\* The grid set-up (PL_SCENE::Simulate) and "Reset all pressure and velocity"
KernelReset ==
    /\ pc = "Simulate_kernel"
    /\ SimulationGrid' = IF call.op = PL_SCENE_Simulate THEN SimulationGridAfter
                         ELSE SimulationGrid
    /\ AirPressure' = [a \in Amplitudes |-> [i \in 1 .. Voxels.Voxels |-> 0]]
    /\ ParticleVelocity' = [a \in Amplitudes |-> [axis \in Axes |-> [i \in 1 .. Voxels.Voxels |-> 0]]]
    /\ CurrentTimeStep' = 0
    /\ Columns' = [a \in Amplitudes |-> <<>>]
    /\ pc' = "Simulate_pressure"
    /\ UNCHANGED <<Meshes, VoxelThreadStatus, thread, Voxels, call>>

\* "Pressure grid" of one time step
KernelPressure ==
    /\ pc = "Simulate_pressure"
    /\ AirPressure' = [a \in Amplitudes |->
                         PressureGrid(AirPressure[a], ParticleVelocity[a], Voxels.Cells, Voxels.Size)]
    /\ pc' = "Simulate_velocity"
    /\ UNCHANGED <<Meshes, VoxelThreadStatus, thread, Voxels, SimulationGrid, call,
                   ParticleVelocity, CurrentTimeStep, Columns>>

\* The velocity loops of one time step
KernelVelocity ==
    /\ pc = "Simulate_velocity"
    /\ ParticleVelocity' =
          [a \in Amplitudes |-> [axis \in Axes |->
              IF axis \in ProcessedAxes(call.op)
              THEN ProcessVelocity(axis, AirPressure[a], ParticleVelocity[a],
                                   Voxels.Cells, Voxels.Size)
              ELSE ParticleVelocity[a][axis]]]
    /\ pc' = IF call.op = PL_SCENE_Simulate THEN "Simulate_response"
             ELSE "Simulate_absorption"
    /\ UNCHANGED <<Meshes, VoxelThreadStatus, thread, Voxels, SimulationGrid, call,
                   AirPressure, CurrentTimeStep, Columns>>

\* "Absorption top/bottom" and "Absorption left/right" of
\* SimulatorFDTD::Simulate (in PL_SCENE::Simulate the step is commented out).
\* An index outside the cell vector is undefined: the process dies, or the
\* loops go on with what the memory there holds.
KernelAbsorption ==
    /\ pc = "Simulate_absorption"
    /\ \/ /\ \E outside \in IF AbsorptionInBounds THEN {0} ELSE {0, 63 * PulseUnit} :
                ParticleVelocity' =
                   [a \in Amplitudes |->
                      [ParticleVelocity[a] EXCEPT
                         !["X"] = Absorbed(@, AirPressure[a],
                                           AbsorptionTopBottom(Voxels.Size), outside),
                         !["Z"] = Absorbed(@, AirPressure[a],
                                           AbsorptionLeftRight(Voxels.Size), outside)]]
          /\ pc' = "Simulate_response"
       \/ /\ ~AbsorptionInBounds
          /\ pc' = "crashed"
          /\ UNCHANGED ParticleVelocity
    /\ UNCHANGED <<Meshes, VoxelThreadStatus, thread, Voxels, SimulationGrid, call,
                   AirPressure, CurrentTimeStep, Columns>>

\* Mutant of AddResponse: the column is written after the pulse is added.
AddResponse_AfterPulse ==
    /\ pc = "Simulate_response"
    /\ Columns' = [a \in Amplitudes |->
                     Append(Columns[a],
                            [AirPressure |-> [AirPressure[a] EXCEPT
                                                ![SourceCell] = @ + Pulse(a, CurrentTimeStep)],
                             ParticleVelocity |-> ParticleVelocity[a]])]
    /\ pc' = "Simulate_pulse"
    /\ UNCHANGED <<Meshes, VoxelThreadStatus, thread, Voxels, SimulationGrid, call,
                   AirPressure, ParticleVelocity, CurrentTimeStep>>

\* "Add response": SimulationGrid[i][CurrentTimeStep] = Voxels.Voxels[i]
AddResponse ==
    /\ pc = "Simulate_response"
    /\ Columns' = [a \in Amplitudes |->
                     Append(Columns[a], [AirPressure |-> AirPressure[a],
                                         ParticleVelocity |-> ParticleVelocity[a]])]
    /\ pc' = "Simulate_pulse"
    /\ UNCHANGED <<Meshes, VoxelThreadStatus, thread, Voxels, SimulationGrid, call,
                   AirPressure, ParticleVelocity, CurrentTimeStep>>

\* "Add pulse": Voxels.Voxels[0].AirPressure += Pulse[CurrentTimeStep], and the
\* loop goes on to the next time step or ends.
AddPulse ==
    /\ pc = "Simulate_pulse"
    /\ AirPressure' = [a \in Amplitudes |->
                         [AirPressure[a] EXCEPT ![SourceCell] = @ + Pulse(a, CurrentTimeStep)]]
    /\ CurrentTimeStep' = CurrentTimeStep + 1
    /\ pc' = IF CurrentTimeStep + 1 < TimeSteps THEN "Simulate_pressure" ELSE "Simulate_return"
    /\ UNCHANGED <<Meshes, VoxelThreadStatus, thread, Voxels, SimulationGrid, call,
                   ParticleVelocity, Columns>>

\* return PL_OK; SimulatorFDTD::Simulate returns nothing.
KernelReturn ==
    /\ pc = "Simulate_return"
    /\ pc' = "idle"
    /\ call' = [call EXCEPT !.ret = IF call.op = PL_SCENE_Simulate THEN PL_OK ELSE Void]
    /\ UNCHANGED <<Meshes, VoxelThreadStatus, thread, Voxels, SimulationGrid, kernel>>

KernelNext ==
    \/ KernelReset /\ UNCHANGED <<locations, meshHistory>>
    \/ KernelPressure /\ UNCHANGED <<locations, meshHistory>>
    \/ KernelVelocity /\ UNCHANGED <<locations, meshHistory>>
    \/ KernelAbsorption /\ UNCHANGED <<locations, meshHistory>>
    \/ AddResponse /\ UNCHANGED <<locations, meshHistory>>
    \/ AddPulse /\ UNCHANGED <<locations, meshHistory>>
    \/ KernelReturn /\ UNCHANGED <<locations, meshHistory>>

KernelSpec == KernelInit /\ [][KernelNext]_vars

----------------------------------------------------------------------------
(* Properties of the time-stepped FDTD, under KernelSpec *)

\* Every product the next step takes with UpdateCoefficents or with
\* (1 - Absorptivity) / (1 + Absorptivity) is a whole number of units.
ArithmeticExact ==
    \A a \in Amplitudes : \A i \in 1 .. Len(AirPressure[a]) :
        /\ pc = "Simulate_pressure" =>
              (2 * Divergance(ParticleVelocity[a], i, Voxels.Size)) % 3 = 0
        /\ pc = "Simulate_velocity" =>
              \A axis \in ProcessedAxes(call.op) :
                 LET c == Coordinate(i - 1, Voxels.Size)
                     prev == CellAt([c EXCEPT ![axis] = @ - 1], Voxels.Size)
                 IN  c[axis] >= 1 =>
                       /\ (2 * (AirPressure[a][i] - AirPressure[a][prev])) % 3 = 0
                       /\ (AirPressure[a][i] + AirPressure[a][prev]) % 7 = 0

\* Every cell of the lattice is air.
AllAir == \A i \in 1 .. Len(Voxels.Cells) : Voxels.Cells[i] = AirCell

\* C24: the velocity step of every time step rewrites the velocity along each
\* of the three axes, in every cell with index >= 1 along the axis, from the
\* pressures of the cell and of its predecessor along the axis.
C24_VelocityUpdatedOnAllAxes ==
    [][ KernelVelocity =>
          \A a \in Amplitudes : \A axis \in Axes :
             ParticleVelocity'[a][axis] =
                ProcessVelocity(axis, AirPressure[a], ParticleVelocity[a],
                                Voxels.Cells, Voxels.Size) ]_vars

\* C25 as claimed: in an all-air lattice, column 0 of the simulation grid
\* holds pulse[0] at the source cell.
C25_PulseVisibleInItsColumn ==
    \A a \in Amplitudes :
        (AllAir /\ Len(Columns[a]) >= 1)
            => Columns[a][1].AirPressure[SourceCell] = Pulse(a, 0)

\* C25 as the code has it: the column of step 0 is written before the first
\* pulse sample is added, so it holds pressure 0 in every cell, the source
\* cell included; pulse[0] is the pressure of the source cell when step 1
\* begins.
C25_PulseAddedAfterColumn ==
    \A a \in Amplitudes :
        /\ Len(Columns[a]) >= 1 =>
              \A i \in 1 .. Len(Columns[a][1].AirPressure) : Columns[a][1].AirPressure[i] = 0
        /\ (pc = "Simulate_pressure" /\ CurrentTimeStep = 1) =>
              AirPressure[a][SourceCell] = Pulse(a, 0)

\* Step 0 of an all-air lattice is over: its column has pressure 0 at the
\* source cell, and the source cell now has pulse[0].
C25_Witness ==
    /\ AllAir
    /\ pc = "Simulate_pressure"
    /\ CurrentTimeStep = 1
    /\ Len(Columns[1]) = 1
    /\ Columns[1][1].AirPressure[SourceCell] = 0
    /\ AirPressure[1][SourceCell] = Pulse(1, 0)
    /\ Pulse(1, 0) # 0

\* v, a sequence of samples, is twice w.
Doubled(v, w) == Len(v) = Len(w) /\ \A i \in 1 .. Len(v) : v[i] = 2 * w[i]

\* The absorption loops stay inside the cell vector (PL_SCENE::Simulate has none).
NoAccessOutside == call.op = PL_SCENE_Simulate \/ AbsorptionInBounds

\* C26: with the pulse multiplied by 2 every pressure and every velocity, in
\* every cell and in every column of the simulation grid, is exactly twice
\* the sample of the run with the pulse as it is.
C26_PressureUpdateLinear ==
    NoAccessOutside =>
        /\ Len(Columns[2]) = Len(Columns[1])
        /\ \A t \in 1 .. Len(Columns[1]) :
              /\ Doubled(Columns[2][t].AirPressure, Columns[1][t].AirPressure)
              /\ \A axis \in Axes :
                    Doubled(Columns[2][t].ParticleVelocity[axis],
                            Columns[1][t].ParticleVelocity[axis])
        /\ Doubled(AirPressure[2], AirPressure[1])
        /\ \A axis \in Axes : Doubled(ParticleVelocity[2][axis], ParticleVelocity[1][axis])

\* PL_SCENE::Simulate has returned, and the last column holds a pressure and a
\* velocity that are not zero in a cell other than the source cell.
C26_Witness ==
    /\ call.op = PL_SCENE_Simulate
    /\ pc = "idle"
    /\ Len(Columns[1]) = TimeSteps
    /\ \E i \in 2 .. Voxels.Voxels :
          /\ Columns[1][TimeSteps].AirPressure[i] # 0
          /\ Columns[1][TimeSteps].ParticleVelocity["X"][i] # 0
          /\ Columns[2][TimeSteps].AirPressure[i] = 2 * Columns[1][TimeSteps].AirPressure[i]

\* C28: in every column of the simulation grid every cell with Beta = 0 has
\* pressure 0, the source cell included.
C28_SolidCellsCarryNoPressure ==
    NoAccessOutside =>
        \A a \in Amplitudes : \A t \in 1 .. Len(Columns[a]) :
            \A i \in 1 .. Len(Voxels.Cells) :
                Voxels.Cells[i].Beta = 0 => Columns[a][t].AirPressure[i] = 0

\* The source cell is solid, pulse samples have been added to it, and the
\* columns of two steps are written.
C28_Witness ==
    /\ NoAccessOutside
    /\ Voxels.Cells[SourceCell].Beta = 0
    /\ Len(Columns[1]) >= 2
    /\ AirPressure[1][SourceCell] # 0

\* The cell Index lies on a face of the lattice: one of its coordinates is
\* 0 or the last one of its axis.
OnBoundaryFace(Index, Size) ==
    \E axis \in Axes :
        Coordinate(Index, Size)[axis] \in {0, AxisSize(Size, axis) - 1}

\* C27: whenever the absorption loops of SimulatorFDTD::Simulate run, every
\* index they read or write is an index of the cell vector, and every cell
\* they write lies on a face of the lattice.
C27_AbsorptionIndicesInLattice ==
    pc = "Simulate_absorption" =>
        \A acc \in AbsorptionTopBottom(Voxels.Size) \cup AbsorptionLeftRight(Voxels.Size) :
            /\ InLattice(acc.write)
            /\ InLattice(acc.read)
            /\ OnBoundaryFace(acc.write, Voxels.Size)

====
